---- MODULE Spec2Model ----
(***************************************************************************)
(* Model of bot/gpt_telegram_bot.py: the per-username conversation table   *)
(* (messages_list) with its append/clear operations, the three handler     *)
(* coroutines running on one cooperative event loop, the completion call   *)
(* with its fallback pool, and the DirectOrMentionInGroup filter together  *)
(* with the handler registration of the __main__ block.                    *)
(*                                                                         *)
(* Four specifications share the variables:                                *)
(*   SpecHistory  append_history / clear_history called in any order       *)
(*   Spec         the handler coroutines, interleaved at their awaits      *)
(*   SpecFilter   DirectOrMentionInGroup.filter applied to updates         *)
(*   SpecApp      the dispatch of an update to the registered handlers     *)
(***************************************************************************)
EXTENDS Integers, Sequences, FiniteSets, TLC

(***************************************************************************)
(* Python str values whose characters never matter to the history code are *)
(* kept as a tag naming the text and its len(); concatenation adds the     *)
(* lengths and pairs the tags.                                             *)
(***************************************************************************)
Str(tag, n) == [txt |-> tag, len |-> n]

PyLen(s) == s.len

Concat(a, b) == [txt |-> <<a.txt, b.txt>>, len |-> a.len + b.len]

\* the character budget of a history (the literal 4096 of the trimming loop)
Budget == 4096

\* bounds of the model
MaxCalls == 4
MaxUpdates == 2
MaxTextLen == 3

Usernames == {"alice", "bob", "eve"}

Roles == {"user", "assistant"}

\* Python's None, where a str or a message may be absent
None == [none |-> TRUE]

\* one handler coroutine per update
Tasks == 1..MaxUpdates

VARIABLES
    messages_list,      \* username -> list of {"role", "content"} dicts
    allowed_usernames,  \* the parsed ALLOWED_USERNAMES
    ncalls,             \* SpecHistory: number of calls made so far
    last,               \* SpecHistory: the last call, and how many turns it popped
    pc,                 \* task -> where its coroutine stands
    handler,            \* task -> the callback it runs
    upd,                \* task -> the update it was given
    response,           \* task -> the local `response`, None before it is set
    outcome,            \* task -> "none", or how the completion call ended
    trace,              \* task -> its calls so far: sends, appends, requests
    blocking,           \* the task inside a synchronous remote call, 0 if none
    log,                \* username -> the append_history calls made for it, in order
    filter_username,    \* DirectOrMentionInGroup.username, None until resolved
    seen_update,        \* the update last given to the filter or the dispatcher
    filter_result,      \* the truth of what filter() returned for it
    routed              \* the callback the application chose for it

\* what the handlers never touch
idleVars == <<ncalls, last, filter_username, seen_update, filter_result, routed>>

taskVars == <<pc, handler, upd, response, outcome, trace, blocking, log>>

appVars == <<filter_username, seen_update, filter_result, routed>>

vars == <<messages_list, allowed_usernames, ncalls, last,
          pc, handler, upd, response, outcome, trace, blocking, log,
          filter_username, seen_update, filter_result, routed>>

(***************************************************************************)
(* History store                                                           *)
(***************************************************************************)
Turn(role, content) == [role |-> role, content |-> content]

RECURSIVE total_length(_)
total_length(msg_list) ==
    IF msg_list = <<>> THEN 0
    ELSE PyLen(Head(msg_list).content) + total_length(Tail(msg_list))

\* messages_list.get(username, [])
history_get(ml, username) ==
    IF username \in DOMAIN ml THEN ml[username] ELSE <<>>

\* faulty variant: `if total_length > 4096` in place of `while`, one pop at most
TrimOnce(msg_list, total) ==
    IF total > Budget THEN Tail(msg_list) ELSE msg_list

\* faulty variant: `while total_length >= 4096`
RECURSIVE TrimEager(_, _)
TrimEager(msg_list, total) ==
    IF total >= Budget
    THEN TrimEager(Tail(msg_list), total - PyLen(Head(msg_list).content))
    ELSE msg_list

\* the while loop of append_history: pop(0) until the total fits
RECURSIVE Trim(_, _)
Trim(msg_list, total) ==
    IF total > Budget
    THEN Trim(Tail(msg_list), total - PyLen(Head(msg_list).content))
    ELSE msg_list

append_history(ml, username, content, role) ==
    LET ml1 == IF username \notin DOMAIN ml
               THEN ml @@ (username :> <<>>)
               ELSE ml
        pushed == Append(ml1[username], Turn(role, content))
    IN  [ml1 EXCEPT ![username] = Trim(pushed, total_length(pushed))]

\* faulty variant: `messages_list.pop(username, None)`, the key dropped
ClearDropsKey(ml, username) ==
    [u \in (DOMAIN ml) \ {username} |-> ml[u]]

\* faulty variant: every list is cleared, not only the caller's
ClearEveryone(ml, username) ==
    [u \in DOMAIN ml |-> <<>>]

clear_history(ml, username) ==
    IF username \in DOMAIN ml THEN [ml EXCEPT ![username] = <<>>] ELSE ml

(***************************************************************************)
(* SpecHistory: any sequence of append_history and clear_history calls     *)
(***************************************************************************)
ContentLens == {0, 1, 2048, 4095, 4096, 4097}

Contents == {Str("c", n) : n \in ContentLens}

NoCall == [op |-> "none"]

NoUpdate == [kind |-> "none"]

\* no handler has been invoked
TasksIdle ==
    /\ pc = [t \in Tasks |-> "idle"]
    /\ handler = [t \in Tasks |-> "none"]
    /\ upd = [t \in Tasks |-> NoUpdate]
    /\ response = [t \in Tasks |-> None]
    /\ outcome = [t \in Tasks |-> "none"]
    /\ trace = [t \in Tasks |-> <<>>]
    /\ blocking = 0
    /\ log = [u \in Usernames |-> <<>>]

\* no update has been classified
AppIdle ==
    /\ filter_username = None
    /\ seen_update = NoUpdate
    /\ filter_result = FALSE
    /\ routed = "unset"

InitHistory ==
    /\ messages_list = <<>>
    /\ allowed_usernames = {}
    /\ ncalls = 0
    /\ last = NoCall
    /\ TasksIdle
    /\ AppIdle

AppendCall(username, content, role) ==
    /\ ncalls < MaxCalls
    /\ ncalls' = ncalls + 1
    /\ messages_list' = append_history(messages_list, username, content, role)
    /\ last' = [op |-> "append", username |-> username, content |-> content,
                role |-> role,
                popped |-> Len(history_get(messages_list, username)) + 1
                           - Len(messages_list'[username])]
    /\ UNCHANGED <<allowed_usernames, taskVars, appVars>>

ClearCall(username) ==
    /\ ncalls < MaxCalls
    /\ ncalls' = ncalls + 1
    /\ messages_list' = clear_history(messages_list, username)
    /\ last' = [op |-> "clear", username |-> username,
                popped |-> Len(history_get(messages_list, username))]
    /\ UNCHANGED <<allowed_usernames, taskVars, appVars>>

NextHistory ==
    \/ \E u \in Usernames, c \in Contents, r \in Roles : AppendCall(u, c, r)
    \/ \E u \in Usernames : ClearCall(u)

SpecHistory == InitHistory /\ [][NextHistory]_vars

(***************************************************************************)
(* Claims on the history store                                             *)
(***************************************************************************)
\* the sum of the content lengths of a list, by index
ContentSum(h) ==
    LET RECURSIVE upto(_)
        upto(i) == IF i = 0 THEN 0 ELSE PyLen(h[i].content) + upto(i - 1)
    IN  upto(Len(h))

Suffix(h, k) == SubSeq(h, k + 1, Len(h))

\* `after` is `joined` with its first k turns removed, for the least k whose
\* remainder fits the budget
IsLongestFittingSuffix(after, joined) ==
    \E k \in 0..Len(joined) :
        /\ after = Suffix(joined, k)
        /\ ContentSum(after) <= Budget
        /\ \A j \in 0..(k - 1) : ContentSum(Suffix(joined, j)) > Budget

\* C1: after every append_history call, whatever the identity, the lengths
\* and the roles of the calls before it, the content lengths of each
\* identity's History sum to at most 4096.
C1_BudgetKept ==
    \A u \in DOMAIN messages_list : ContentSum(messages_list[u]) <= Budget

\* an append that had to pop two or more turns and kept the new one
C1_Witness ==
    /\ last.op = "append"
    /\ last.popped >= 2
    /\ messages_list[last.username] # <<>>

C7_KeysKept ==
    [][/\ DOMAIN messages_list \subseteq DOMAIN messages_list'
       /\ last'.op = "clear" =>
            LET u == last'.username
            IN  IF u \in DOMAIN messages_list
                THEN /\ DOMAIN messages_list' = DOMAIN messages_list
                     /\ messages_list'[u] = <<>>
                     /\ \A v \in DOMAIN messages_list \ {u} :
                            messages_list'[v] = messages_list[v]
                ELSE messages_list' = messages_list
       /\ (/\ last'.op = "append"
           /\ last.op = "clear"
           /\ last'.username = last.username) =>
            messages_list'[last'.username]
                = IF PyLen(last'.content) <= Budget
                  THEN <<Turn(last'.role, last'.content)>>
                  ELSE <<>>
    ]_vars

\* a clear_history that emptied a History holding turns
C7_Witness ==
    /\ last.op = "clear"
    /\ last.popped >= 1
    /\ last.username \in DOMAIN messages_list
    /\ messages_list[last.username] = <<>>

(***************************************************************************)
(* Handlers: process_text_message, process_audio_message, reset_history    *)
(*                                                                         *)
(* A coroutine runs from one await to the next without interruption; each  *)
(* action below is one such stretch, and pc names the await the task is    *)
(* suspended at.  openai.ChatCompletion.create is a plain synchronous call *)
(* made from the coroutine: between the request and its return the thread  *)
(* is inside that call (blocking = the task) and no coroutine is resumed.  *)
(*                                                                         *)
(* Handlers of different updates may be in flight together (the            *)
(* application run with concurrent updates); one handler at a time, the    *)
(* default, is the case in which a task starts only when the others are    *)
(* done.  process_audio_message is modelled as the callback it is; SpecApp *)
(* shows which updates the application passes to it.                       *)
(***************************************************************************)
Rejection == Str("Sorry, you are not allowed to use this bot", 42)

Thinking == Str("thinking face", 1)

Cleaned == Str("Messages history cleaned", 24)

QuoteMark == Str("> ", 2)

QuoteSep == Str(" \\n\\n", 3)

choices == <<
    Str("Oops, I must've tripped over my own code. Give me a moment to untangle myself!", 80),
    Str("Error 404: Witty response not found. Stand by for reboot.", 59),
    Str("Hold on, I think I've misplaced my 1s and 0s. Let me find them and get back to you!", 85),
    Str("My circuits are overheating from all the awesomeness. Give me a second to cool down!", 87),
    Str("Hold on, I'm buffering... just like the good ol' days of dial-up internet.", 75),
    Str("I've got a case of digital hiccups! Bear with me while I sip some virtual water.", 82),
    Str("I'd tell you a joke, but I think I just forgot the punchline. Hang on while I remember it.", 92),
    Str("I'm experiencing a minor glitch in the matrix. Let me reboot and we'll be back to normal.", 91),
    Str("Seems like I accidentally hit the snooze button on my internal clock. Let me wake up and get back to you!", 107),
    Str("I'm currently lost in the cloud, but don't worry, I'll navigate my way back to you shortly!", 94),
    Str("Hold tight, I'm just taking a quick coffee break to recharge my bytes. Be right back!", 87),
    Str("Apologies, I'm temporarily stuck in the emoji dimension. I'll escape shortly!", 81),
    Str("I think I just blue-screened myself laughing. Let me reboot and I'll be right with you.", 89),
    Str("One moment please, I'm currently in a heated debate with my firewall.", 71),
    Str("Hang on, I'm in the middle of a software update: 'Installing Humor 2.0.' Should be done soon!", 95)
>>

\* inputs: the ALLOWED_USERNAMES settings, the updates, what the services return
AllowLists == {{}, {"alice", "bob"}}

Texts == {Str("Hello", 5)}

OrigTexts == {Str("original", 4000)}

NoReply == [present |-> FALSE]

ReplyTos == {NoReply} \cup {[present |-> TRUE, text |-> x] : x \in OrigTexts \cup {None}}

TextUpdates ==
    [kind : {"text"}, username : Usernames, text : Texts, reply_to_message : ReplyTos]

VoiceUpdates ==
    [kind : {"voice"}, username : Usernames, text : {None}, reply_to_message : {NoReply}]

ResetUpdates ==
    [kind : {"command"}, username : Usernames, text : {Str("/reset", 6)},
     reply_to_message : {NoReply}]

Replies == {Str("Hi there", 8), Str("essay", 5000)}

Transcripts == {Str("transcript", 30)}

CompletionResults ==
    {[ok |-> TRUE, content |-> c] : c \in Replies}
        \cup {[ok |-> FALSE, pick |-> i] : i \in 1..Len(choices)}

TranscriptionResults ==
    {[ok |-> TRUE, text |-> x] : x \in Transcripts} \cup {[ok |-> FALSE]}

\* faulty variant: `len(allowed_usernames) >= 0`
IsAllowedAlways(username) == TRUE

is_allowed_user(username) ==
    Cardinality(allowed_usernames) = 0 \/ username \in allowed_usernames

\* the value handle_allowed_usernames returns; its send is in the actions
handle_allowed_usernames(update) == is_allowed_user(update.username)

\* messages=messages_list.get(username, [])
request_messages(ml, username) == history_get(ml, username)

\* faulty variant: `return str(e)` in the except branch
GenerateReturnsError(result) ==
    IF result.ok THEN result.content ELSE Str("exception text", 20)

\* what generate_gpt_response returns, `result` being how the remote call ended
generate_gpt_response(result) ==
    IF result.ok THEN result.content ELSE choices[result.pick]

\* faulty variant: `await openai.ChatCompletion.acreate(...)`, the loop left free
AwaitInstead(t) == 0

\* the synchronous call keeps the thread: no other coroutine is resumed
BlockLoop(t) == t

Emit(t, e) == [trace EXCEPT ![t] = Append(@, e)]

Goto(t, label) == [pc EXCEPT ![t] = label]

\* a handler is invoked for the next update
Invoke(t, name, update) ==
    /\ blocking = 0
    /\ pc[t] = "idle"
    /\ IF t = 1 THEN TRUE ELSE pc[t - 1] # "idle"
    /\ handler' = [handler EXCEPT ![t] = name]
    /\ upd' = [upd EXCEPT ![t] = update]

\* lines 36-41: the rejection notice is sent and awaited
Reject(t) ==
    /\ pc' = Goto(t, "rejecting")
    /\ trace' = Emit(t, <<"send", Rejection>>)
    /\ UNCHANGED <<messages_list, response, outcome, blocking, log>>

\* process_text_message up to its first await
TextStart(t, update) ==
    /\ Invoke(t, "text", update)
    /\ IF ~handle_allowed_usernames(update)
       THEN Reject(t)
       ELSE /\ pc' = Goto(t, "thinking")
            /\ trace' = Emit(t, <<"send", Thinking>>)
            /\ UNCHANGED <<messages_list, response, outcome, blocking, log>>
    /\ UNCHANGED <<allowed_usernames, idleVars>>

\* lines 75-81: the thinking notice is out; quote, append, submit the request
TextSubmit(t) ==
    /\ blocking = 0
    /\ pc[t] = "thinking"
    /\ LET update == upd[t]
           reply == update.reply_to_message
       IN  IF reply.present /\ reply.text = None
           THEN \* "> " + None raises TypeError
                /\ pc' = Goto(t, "crashed")
                /\ UNCHANGED <<messages_list, trace, blocking, log>>
           ELSE LET msg_text ==
                        IF reply.present
                        THEN Concat(Concat(Concat(QuoteMark, reply.text), QuoteSep),
                                    update.text)
                        ELSE update.text
                    ml == append_history(messages_list, update.username,
                                         msg_text, "user")
                IN  /\ messages_list' = ml
                    /\ log' = [log EXCEPT ![update.username] = Append(@, <<t, "user">>)]
                    /\ trace' = [trace EXCEPT ![t] =
                           @ \o << <<"append", "user", msg_text>>,
                                   <<"complete", request_messages(ml, update.username)>> >>]
                    /\ pc' = Goto(t, "completing")
                    /\ blocking' = BlockLoop(t)
    /\ UNCHANGED <<allowed_usernames, idleVars, handler, upd, response, outcome>>

\* lines 81-84: the completion call returns or raises; append, ask to delete
TextCompleted(t, result) ==
    /\ pc[t] = "completing"
    /\ handler[t] = "text"
    /\ blocking \in {0, t}   \* no other task is inside a synchronous call
    /\ LET reply == generate_gpt_response(result)
       IN  /\ response' = [response EXCEPT ![t] = reply]
           /\ outcome' = [outcome EXCEPT ![t] = IF result.ok THEN "ok" ELSE "error"]
           /\ messages_list' = append_history(messages_list, upd[t].username,
                                              reply, "assistant")
           /\ log' = [log EXCEPT ![upd[t].username] = Append(@, <<t, "assistant">>)]
           /\ trace' = [trace EXCEPT ![t] =
                  @ \o << <<"append", "assistant", reply>>, <<"delete">> >>]
    /\ pc' = Goto(t, "deleting")
    /\ blocking' = 0
    /\ UNCHANGED <<allowed_usernames, idleVars, handler, upd>>

\* line 87: the thinking notice is deleted; the reply is sent
TextDeleted(t) ==
    /\ blocking = 0
    /\ pc[t] = "deleting"
    /\ trace' = Emit(t, <<"send", response[t]>>)
    /\ pc' = Goto(t, "replying")
    /\ UNCHANGED <<messages_list, allowed_usernames, idleVars, handler, upd,
                   response, outcome, blocking, log>>

\* process_audio_message up to its first await (inside download_audio)
AudioStart(t, update) ==
    /\ Invoke(t, "audio", update)
    /\ IF ~handle_allowed_usernames(update)
       THEN Reject(t)
       ELSE /\ pc' = Goto(t, "downloading")
            /\ trace' = Emit(t, <<"download">>)
            /\ UNCHANGED <<messages_list, response, outcome, blocking, log>>
    /\ UNCHANGED <<allowed_usernames, idleVars>>

\* lines 136-138 and 95-97: convert, transcribe, append, submit the request
AudioTranscribed(t, result) ==
    /\ blocking = 0
    /\ pc[t] = "downloading"
    /\ IF ~result.ok
       THEN \* openai.Audio.transcribe raises; nothing catches it
            /\ pc' = Goto(t, "crashed")
            /\ trace' = Emit(t, <<"transcribe">>)
            /\ UNCHANGED <<messages_list, blocking, log>>
       ELSE LET username == upd[t].username
                ml == append_history(messages_list, username, result.text, "user")
            IN  /\ messages_list' = ml
                /\ log' = [log EXCEPT ![username] = Append(@, <<t, "user">>)]
                /\ trace' = [trace EXCEPT ![t] =
                       @ \o << <<"transcribe">>,
                               <<"append", "user", result.text>>,
                               <<"complete", request_messages(ml, username)>> >>]
                /\ pc' = Goto(t, "completing")
                /\ blocking' = BlockLoop(t)
    /\ UNCHANGED <<allowed_usernames, idleVars, handler, upd, response, outcome>>

\* lines 97-100: the completion call returns or raises; append, send the reply
AudioCompleted(t, result) ==
    /\ pc[t] = "completing"
    /\ handler[t] = "audio"
    /\ blocking \in {0, t}
    /\ LET reply == generate_gpt_response(result)
       IN  /\ response' = [response EXCEPT ![t] = reply]
           /\ outcome' = [outcome EXCEPT ![t] = IF result.ok THEN "ok" ELSE "error"]
           /\ messages_list' = append_history(messages_list, upd[t].username,
                                              reply, "assistant")
           /\ log' = [log EXCEPT ![upd[t].username] = Append(@, <<t, "assistant">>)]
           /\ trace' = [trace EXCEPT ![t] =
                  @ \o << <<"append", "assistant", reply>>, <<"send", reply>> >>]
    /\ pc' = Goto(t, "replying")
    /\ blocking' = 0
    /\ UNCHANGED <<allowed_usernames, idleVars, handler, upd>>

\* reset_history up to its await
ResetStart(t, update) ==
    /\ Invoke(t, "reset", update)
    /\ IF ~handle_allowed_usernames(update)
       THEN Reject(t)
       ELSE /\ messages_list' = clear_history(messages_list, update.username)
            /\ trace' = [trace EXCEPT ![t] =
                   @ \o << <<"clear">>, <<"send", Cleaned>> >>]
            /\ pc' = Goto(t, "confirming")
            /\ UNCHANGED <<response, outcome, blocking, log>>
    /\ UNCHANGED <<allowed_usernames, idleVars>>

\* an awaited send_message returns and the handler returns
SendReturned(t) ==
    /\ blocking = 0
    /\ pc[t] \in {"rejecting", "replying", "confirming"}
    /\ pc' = Goto(t, "done")
    /\ UNCHANGED <<messages_list, allowed_usernames, idleVars, handler, upd,
                   response, outcome, trace, blocking, log>>

\* an awaited transport call (send, delete, download) raises; nothing catches it
TransportError(t) ==
    /\ blocking = 0
    /\ pc[t] \in {"rejecting", "thinking", "deleting", "replying", "confirming",
                  "downloading"}
    /\ pc' = Goto(t, "failed")
    /\ UNCHANGED <<messages_list, allowed_usernames, idleVars, handler, upd,
                   response, outcome, trace, blocking, log>>

Init ==
    /\ messages_list = <<>>
    /\ allowed_usernames \in AllowLists
    /\ ncalls = 0
    /\ last = NoCall
    /\ TasksIdle
    /\ AppIdle

Next ==
    \/ \E t \in Tasks, u \in TextUpdates : TextStart(t, u)
    \/ \E t \in Tasks : TextSubmit(t)
    \/ \E t \in Tasks, r \in CompletionResults : TextCompleted(t, r)
    \/ \E t \in Tasks : TextDeleted(t)
    \/ \E t \in Tasks, u \in VoiceUpdates : AudioStart(t, u)
    \/ \E t \in Tasks, r \in TranscriptionResults : AudioTranscribed(t, r)
    \/ \E t \in Tasks, r \in CompletionResults : AudioCompleted(t, r)
    \/ \E t \in Tasks, u \in ResetUpdates : ResetStart(t, u)
    \/ \E t \in Tasks : SendReturned(t)
    \/ \E t \in Tasks : TransportError(t)

Spec == Init /\ [][Next]_vars

(***************************************************************************)
(* Claims on the handlers                                                  *)
(***************************************************************************)
Stepped(t) == pc'[t] # pc[t]

InFlight(t) == pc[t] \notin {"idle", "done", "failed", "crashed"}

\* any step task t could take now
TaskStep(t) ==
    \/ \E u \in TextUpdates : TextStart(t, u)
    \/ \E u \in VoiceUpdates : AudioStart(t, u)
    \/ \E u \in ResetUpdates : ResetStart(t, u)
    \/ TextSubmit(t)
    \/ \E r \in CompletionResults : TextCompleted(t, r)
    \/ TextDeleted(t)
    \/ \E r \in TranscriptionResults : AudioTranscribed(t, r)
    \/ \E r \in CompletionResults : AudioCompleted(t, r)
    \/ SendReturned(t)
    \/ TransportError(t)

FallbackPool == {choices[i] : i \in DOMAIN choices}

LastOf(seq) == seq[Len(seq)]

\* C3: a handler run for a sender the non-empty allow-list does not hold
\* sends the rejection notice and nothing else, leaves the whole table as it
\* was and calls neither the completion nor the transcription service.
C3_DeniedChangesNothing ==
    [][\A t \in Tasks :
        (/\ Stepped(t)
         /\ allowed_usernames # {}
         /\ upd'[t].username \notin allowed_usernames) =>
            /\ messages_list' = messages_list
            /\ trace'[t] = << <<"send", Rejection>> >>
            /\ pc'[t] \in {"rejecting", "done", "failed"}
            /\ response'[t] = None
            /\ outcome'[t] = "none"
    ]_vars

\* a rejected sender's handler has returned while another identity has turns
C3_Witness ==
    \E t \in Tasks :
        /\ pc[t] = "done"
        /\ allowed_usernames # {}
        /\ upd[t].username \notin allowed_usernames
        /\ \E u \in DOMAIN messages_list : messages_list[u] # <<>>

\* C4: when the completion call fails, generate_gpt_response returns a
\* non-empty member of the fallback pool instead of raising; the handler
\* appends exactly that string as an "assistant" Turn and, where it gets to
\* send its reply, sends that string.
C4_FallbackAppended ==
    [][\A t \in Tasks :
        /\ (outcome'[t] = "error" /\ outcome[t] = "none") =>
              LET u == upd[t].username
                  r == response'[t]
              IN  /\ r \in FallbackPool
                  /\ PyLen(r) > 0
                  /\ pc'[t] \in {"deleting", "replying"}
                  /\ messages_list'[u] # <<>>
                  /\ LastOf(messages_list'[u]) = Turn("assistant", r)
                  /\ LastOf(log'[u]) = <<t, "assistant">>
        /\ (outcome'[t] = "error" /\ pc'[t] \in {"replying", "done"}) =>
              LastOf(trace'[t]) = <<"send", response'[t]>>
    ]_vars

\* a handler whose completion call failed has delivered its reply and returned
C4_Witness ==
    \E t \in Tasks :
        /\ outcome[t] = "error"
        /\ pc[t] = "done"
        /\ handler[t] = "text"

\* C8 as stated: the appends of two handlers of one identity are not
\* serialized, which needs a point between a handler's "user" append and its
\* "assistant" append at which another handler of that identity in flight
\* can be resumed.
C8_Original ==
    \A t \in Tasks, t2 \in Tasks :
        (/\ t # t2
         /\ pc[t] = "completing"
         /\ InFlight(t2)
         /\ upd[t2].username = upd[t].username) => ENABLED TaskStep(t2)

\* C8 amended: the two appends of a handler are adjacent in the order of
\* appends of its identity (the completion call between them is synchronous
\* and resumes no other coroutine), and the content lengths of every History
\* sum to at most 4096 at every point where a handler can run.
C8_Serialized ==
    /\ \A u \in Usernames : \A i \in 1..Len(log[u]) :
          log[u][i][2] = "user" =>
              IF i < Len(log[u])
              THEN log[u][i + 1] = <<log[u][i][1], "assistant">>
              ELSE /\ pc[log[u][i][1]] = "completing"
                   /\ blocking = log[u][i][1]
    /\ \A t \in Tasks : pc[t] = "completing" =>
          \A t2 \in Tasks \ {t} : ~ENABLED TaskStep(t2)
    /\ \A u \in DOMAIN messages_list : ContentSum(messages_list[u]) <= Budget

\* two handlers of one identity in flight at once, each with both appends made
C8_Witness ==
    /\ \A t \in Tasks : pc[t] \in {"deleting", "replying"}
    /\ upd[1].username = upd[2].username
    /\ Len(log[upd[1].username]) >= 4

\* C9: every allowed, routed text event makes the text handler append the
\* effective input as a "user" Turn, call the completion on the resulting
\* History, append the returned string as an "assistant" Turn and then send
\* exactly that string, each once and in this order.
C9_Original ==
    \A t \in Tasks :
        (/\ handler[t] = "text"
         /\ is_allowed_user(upd[t].username)
         /\ pc[t] \in {"completing", "deleting", "replying", "done", "crashed"}) =>
            /\ Len(trace[t]) >= 3
            /\ trace[t][1] = <<"send", Thinking>>
            /\ trace[t][2][1] = "append" /\ trace[t][2][2] = "user"
            /\ trace[t][3][1] = "complete"
            /\ pc[t] \in {"deleting", "replying", "done"} =>
                  /\ Len(trace[t]) >= 5
                  /\ trace[t][4] = <<"append", "assistant", response[t]>>
                  /\ trace[t][5] = <<"delete">>
            /\ pc[t] \in {"replying", "done"} =>
                  /\ Len(trace[t]) = 6
                  /\ trace[t][6] = <<"send", response[t]>>

\* C10: a step of a handler run for username u leaves every other
\* username's entry of the table as it was (present or absent, same turns),
\* and the list it submits to the completion service is u's own History.
C10_Isolated ==
    [][\A t \in Tasks : Stepped(t) =>
        LET u == upd'[t].username
        IN  /\ \A v \in Usernames \ {u} :
                  /\ v \in DOMAIN messages_list' <=> v \in DOMAIN messages_list
                  /\ v \in DOMAIN messages_list =>
                        messages_list'[v] = messages_list[v]
            /\ \A i \in (Len(trace[t]) + 1)..Len(trace'[t]) :
                  trace'[t][i][1] = "complete" =>
                      /\ u \in DOMAIN messages_list'
                      /\ trace'[t][i][2] = messages_list'[u]
    ]_vars

\* handlers of two identities have interleaved and each identity holds turns
C10_Witness ==
    /\ pc[1] = "deleting"
    /\ pc[2] = "deleting"
    /\ upd[1].username = "alice"
    /\ upd[2].username = "bob"
    /\ Len(messages_list["alice"]) = 2
    /\ Len(messages_list["bob"]) = 2

(***************************************************************************)
(* DirectOrMentionInGroup and the registration of the handlers             *)
(*                                                                         *)
(* Here the characters of a text matter (the mention is a substring test), *)
(* so a text is the sequence of its characters, wrapped in a record so     *)
(* that it can be compared with None.                                      *)
(***************************************************************************)
Chars == {"@", "b", "t"}

\* self.bot.username
CharTexts == UNION {[1..n -> Chars] : n \in 0..MaxTextLen}

Text(s) == [chars |-> s]

BotUsername == Text(<<"b", "t">>)

OtherUsername == Text(<<"t", "b">>)

ChatTypes == {"private", "group", "supergroup", "channel"}

\* reply_to_message: absent, or a message whose from_user may be absent
FilterReplies ==
    {[present |-> FALSE]}
        \cup {[present |-> TRUE, from_user |-> f] :
                f \in {None, [username |-> BotUsername], [username |-> OtherUsername]}}

\* Python truthiness of an optional str
Truthy(text) == text # None /\ text.chars # <<>>

\* `needle in haystack` for two str values
RECURSIVE PyIn(_, _)
PyIn(needle, haystack) ==
    IF Len(haystack) < Len(needle) THEN FALSE
    ELSE IF SubSeq(haystack, 1, Len(needle)) = needle THEN TRUE
    ELSE PyIn(needle, Tail(haystack))

\* faulty variant: `update.effective_chat.type == "group"`
IsGroupOnly(chat_type) == chat_type = "group"

\* update.effective_chat.type in ["group", "supergroup"]
is_group_chat(chat_type) == chat_type \in {"group", "supergroup"}

\* DirectOrMentionInGroup.filter: the value returned (by its truth) and the
\* memoized self.username it leaves
filter(self_username, update) ==
    IF ~update.has_message \/ ~Truthy(update.text)
    THEN [ret |-> FALSE, username |-> self_username]
    ELSE LET username == IF self_username = None THEN BotUsername
                         ELSE self_username
             mentioned == PyIn(<<"@">> \o username.chars, update.text.chars)
             reply == update.reply_to_message
             is_reply_to_bot ==
                 /\ reply.present
                 /\ reply.from_user # None
                 /\ reply.from_user.username = username
         IN  [ret |-> (~is_group_chat(update.chat_type)) \/ mentioned \/ is_reply_to_bot,
              username |-> username]

(***************************************************************************)
(* SpecFilter: the filter applied to any update                            *)
(***************************************************************************)
\* updates with a message, and one without (an edited message)
FilterUpdates ==
    [has_message : {TRUE}, chat_type : ChatTypes,
     text : {None} \cup {Text(s) : s \in CharTexts},
     reply_to_message : FilterReplies]
        \cup [has_message : {FALSE}, chat_type : ChatTypes,
              text : {Text(<<"@", "b", "t">>)},
              reply_to_message : {[present |-> FALSE]}]

InitFilter ==
    /\ messages_list = <<>>
    /\ allowed_usernames = {}
    /\ ncalls = 0
    /\ last = NoCall
    /\ TasksIdle
    /\ AppIdle

FilterCall(update) ==
    /\ seen_update' = update
    /\ filter_result' = filter(filter_username, update).ret
    /\ filter_username' = filter(filter_username, update).username
    /\ UNCHANGED <<messages_list, allowed_usernames, ncalls, last, taskVars, routed>>

NextFilter == \E update \in FilterUpdates : FilterCall(update)

SpecFilter == InitFilter /\ [][NextFilter]_vars

(***************************************************************************)
(* SpecApp: application.add_handler(...) x 3, then one update after the    *)
(* other is offered to the handlers in the order they were added; the      *)
(* first whose filters accept it gets it.                                  *)
(***************************************************************************)
\* the updates the chat platform delivers: a text message (new or edited), a
\* command, a voice message (which carries no text)
AppUsernames == {"alice", "eve"}

AppTexts == {Text(<<"t">>), Text(<<"@", "b", "t">>)}

TextMessages ==
    [has_message : BOOLEAN, chat_type : ChatTypes,
     text : AppTexts, voice : {FALSE}, command : {""},
     reply_to_message : FilterReplies, username : AppUsernames]

CommandMessages ==
    [has_message : {TRUE}, chat_type : ChatTypes,
     text : {Text(<<"/">>)}, voice : {FALSE}, command : {"reset", "start"},
     reply_to_message : {[present |-> FALSE]}, username : AppUsernames]

VoiceMessages ==
    [has_message : {TRUE}, chat_type : ChatTypes,
     text : {None}, voice : {TRUE}, command : {""},
     reply_to_message : FilterReplies, username : AppUsernames]

AppUpdates == TextMessages \cup CommandMessages \cup VoiceMessages

\* filters.TEXT & (~filters.COMMAND)
TextNotCommand(update) == Truthy(update.text) /\ update.command = ""

\* CommandHandler("reset", ...)
IsResetCommand(update) == update.command = "reset"

\* filters.VOICE
IsVoice(update) == update.voice

\* the callback the application runs for the update, and the filter's state
\* after the checks; `a & b` evaluates b only when a accepts
dispatch(self_username, update) ==
    LET text_check ==
            IF TextNotCommand(update) THEN filter(self_username, update)
            ELSE [ret |-> FALSE, username |-> self_username]
        audio_check ==
            IF IsVoice(update) THEN filter(text_check.username, update)
            ELSE [ret |-> FALSE, username |-> text_check.username]
    IN  IF text_check.ret
        THEN [callback |-> "process_text_message", username |-> text_check.username]
        ELSE IF IsResetCommand(update)
        THEN [callback |-> "reset_history", username |-> text_check.username]
        ELSE IF audio_check.ret
        THEN [callback |-> "process_audio_message", username |-> audio_check.username]
        ELSE [callback |-> "none", username |-> audio_check.username]

InitApp ==
    /\ messages_list = <<>>
    /\ allowed_usernames \in AllowLists
    /\ ncalls = 0
    /\ last = NoCall
    /\ TasksIdle
    /\ AppIdle

Dispatch(update) ==
    /\ seen_update' = update
    /\ routed' = dispatch(filter_username, update).callback
    /\ filter_username' = dispatch(filter_username, update).username
    /\ UNCHANGED <<messages_list, allowed_usernames, ncalls, last, taskVars,
                   filter_result>>

NextApp == \E update \in AppUpdates : Dispatch(update)

SpecApp == InitApp /\ [][NextApp]_vars

(***************************************************************************)
(* Claims on the filter and the dispatch                                   *)
(***************************************************************************)
\* the text holds "@" followed by the handle, at some position
Mentions(chars, handle) ==
    \E i \in 1..Len(chars) :
        /\ i + Len(handle) <= Len(chars)
        /\ chars[i] = "@"
        /\ \A j \in 1..Len(handle) : chars[i + j] = handle[j]

RepliesTo(update, handle) ==
    /\ update.reply_to_message.present
    /\ update.reply_to_message.from_user # None
    /\ update.reply_to_message.from_user.username = handle

HasText(update) ==
    /\ update.has_message
    /\ update.text # None
    /\ Len(update.text.chars) > 0

\* C5: filter is false for every event without message text; with text it
\* is true in every chat that is neither "group" nor "supergroup"; with text
\* in a group or supergroup it is true exactly when the text contains
\* "@<own handle>" or the event replies to a message of the own handle.
C5_FilterTable ==
    seen_update # NoUpdate =>
        /\ ~HasText(seen_update) => filter_result = FALSE
        /\ (HasText(seen_update)
            /\ seen_update.chat_type \notin {"group", "supergroup"}) =>
                filter_result = TRUE
        /\ (HasText(seen_update)
            /\ seen_update.chat_type \in {"group", "supergroup"}) =>
                (filter_result = TRUE <=>
                    \/ Mentions(seen_update.text.chars, BotUsername.chars)
                    \/ RepliesTo(seen_update, BotUsername))

\* a supergroup text that neither mentions nor answers the bot is refused
\* although it holds "@" and the first letter of the handle
C5_Witness ==
    /\ seen_update # NoUpdate
    /\ filter_result = FALSE
    /\ HasText(seen_update)
    /\ seen_update.chat_type = "supergroup"
    /\ seen_update.text.chars = <<"@", "b", "@">>
    /\ seen_update.reply_to_message.present

\* C6: a voice event of an allowed identity in a chat that is no group is
\* always routed to the voice handler (which then appends the transcript,
\* calls the completion, appends and delivers the reply).
C6_Original ==
    (/\ routed # "unset"
     /\ seen_update.voice
     /\ (allowed_usernames = {} \/ seen_update.username \in allowed_usernames)
     /\ seen_update.chat_type = "private") =>
        routed = "process_audio_message"

====
